---- MODULE Spec2Model ----
(***************************************************************************)
(* The product catalog API of src/main.js: the Product document model      *)
(* (variants, reviews, status), its validation and pre-save hook, and the  *)
(* request handlers createProduct, getProductById, getVariantBySku,        *)
(* addVariant, updateVariantStock and addReview over the products          *)
(* collection.                                                            *)
(*                                                                         *)
(* Numbers.  A stock quantity is a JSON number (schema type Number), not   *)
(* necessarily whole.  The model keeps quantities in halves: the integer n *)
(* stands for the number n/2, so 2 is one unit, 1 is 0.5 and -2 is -1.     *)
(* Sums and comparisons with 0 are the same in halves as in units.         *)
(*                                                                         *)
(* Identifiers.  A product id of a request is an integer: k >= 1 is a      *)
(* well-formed ObjectId (the id of the k-th inserted product when such a   *)
(* product exists), and 0 is a token that does not cast to an ObjectId.    *)
(*                                                                         *)
(* Library behaviour the handlers rely on (Mongoose over MongoDB):         *)
(*  - Document.save() of a new document validates, runs the pre-save       *)
(*    hook and inserts; save() of a fetched document validates the         *)
(*    modified paths, runs the hook and sends one updateOne with the       *)
(*    changes only: Array.push becomes {$push: {path: {$each: [elem]}}}    *)
(*    and an assignment becomes {$set: {path: value}}.  The version key is *)
(*    incremented by the push and is not part of the filter, so pushes of  *)
(*    concurrent requests do not conflict; it is left out of the model.    *)
(*  - findOneAndUpdate with runValidators casts the filter, validates the  *)
(*    $set value, then applies the update atomically to the first array    *)
(*    element matched by the filter; no save hook runs.                    *)
(*  - the unique index on variants.sku is a multikey index: it rejects a   *)
(*    write when ANOTHER document holds the key, and does not compare the  *)
(*    elements inside one document.                                        *)
(***************************************************************************)
EXTENDS Integers, Sequences, FiniteSets, TLC

\* Bounds of the model: the products of the catalog, the variants of one
\* product, the reviews of the catalog.
MaxProducts == 2
MaxVariants == 2
MaxReviews == 2

\* The requests that may be in flight at the same time (SpecConc).
Procs == {"r1", "r2"}

VARIABLES
  db,     \* the products collection: db[k] is the k-th inserted product
  req,    \* req[p]: the handler invocation p between its findById and its save
  resp,   \* the response of the last handler that completed
  hist    \* history: what the API acknowledged (not program state)

vars == <<db, req, resp, hist>>

----------------------------------------------------------------------------
\* Schema: casting, validation, derived values

\* String.prototype.toUpperCase on the characters the inputs use.
UpperChar(c) ==
  CASE c = "a" -> "A"
    [] c = "b" -> "B"
    [] OTHER -> c

ToUpperCase(s) == [i \in DOMAIN s |-> UpperChar(s[i])]

\* A variant as the variantSchema casts it: sku upper-cased, stock a Number.
CastVariant(v) == [sku |-> ToUpperCase(v.sku), stock |-> v.stock]

\* The variantSchema validators (stock: min 0).
VariantErrors(v) ==
  IF v.stock < 0 THEN {"Stock cannot be negative"} ELSE {}

\* The reviewSchema validators (username required, rating 1..5).
ReviewErrors(r) ==
  (IF r.username = "" THEN {"Path username is required."} ELSE {})
    \cup (IF r.rating < 1 THEN {"Path rating is less than minimum allowed value (1)."} ELSE {})
    \cup (IF r.rating > 5 THEN {"Path rating is more than maximum allowed value (5)."} ELSE {})

\* The variants validator left out of the schema.
VariantsValidatorOff(v) == TRUE

\* The validator of productSchema.variants.
VariantsValidator(v) == Len(v) > 0

\* Validation of a new Product(body): every failing path reports its message.
ProductErrors(body) ==
  (IF Len(body.name) < 3 THEN {"Product name must be at least 3 characters"} ELSE {})
    \cup (IF VariantsValidator(body.variants) THEN {}
          ELSE {"Product must have at least one variant"})
    \cup UNION {VariantErrors(body.variants[i]) : i \in DOMAIN body.variants}

RECURSIVE SumStock(_)
SumStock(vs) == IF vs = <<>> THEN 0 ELSE Head(vs).stock + SumStock(Tail(vs))

\* The totalStock virtual.
totalStock(doc) == IF Len(doc.variants) = 0 THEN 0 ELSE SumStock(doc.variants)

RECURSIVE SumRating(_)
SumRating(rs) == IF rs = <<>> THEN 0 ELSE Head(rs).rating + SumRating(Tail(rs))

\* The averageRating virtual, in tenths: 0 without reviews, else
\* (sum / length).toFixed(1), the quotient rounded to one decimal (the half
\* rounds up; no quotient of the ratings the model uses falls within a
\* floating-point error of a half).
averageRating(doc) ==
  IF Len(doc.reviews) = 0 THEN 0
  ELSE (20 * SumRating(doc.reviews) + Len(doc.reviews)) \div (2 * Len(doc.reviews))

\* methods.isAvailable
isAvailable(doc) == doc.status = "Active" /\ totalStock(doc) > 0

\* The hook without its test of the status.
PreSaveAnyStatus(doc) ==
  IF SumStock(doc.variants) = 0
    THEN [doc EXCEPT !.status = "Out of Stock"]
    ELSE doc

\* The hook that also makes an Out of Stock product with stock Active.
PreSaveRestoring(doc) ==
  IF SumStock(doc.variants) = 0 /\ doc.status = "Active"
    THEN [doc EXCEPT !.status = "Out of Stock"]
  ELSE IF SumStock(doc.variants) > 0 /\ doc.status = "Out of Stock"
    THEN [doc EXCEPT !.status = "Active"]
  ELSE doc

\* The pre-save hook: an Active product without stock becomes Out of Stock.
PreSave(doc) ==
  IF SumStock(doc.variants) = 0 /\ doc.status = "Active"
    THEN [doc EXCEPT !.status = "Out of Stock"]
    ELSE doc

\* Index of the first variant whose sku is s, 0 when there is none
\* (Array.prototype.find; the positional operator $ of an update).
RECURSIVE FirstFrom(_, _, _)
FirstFrom(vs, s, i) ==
  IF i > Len(vs) THEN 0
  ELSE IF vs[i].sku = s THEN i
  ELSE FirstFrom(vs, s, i + 1)

FirstMatch(vs, s) == FirstFrom(vs, s, 1)

\* methods.getVariantBySku
getVariantBySku(doc, sku) == FirstMatch(doc.variants, ToUpperCase(sku))

\* Casting a request id to an ObjectId succeeds.
IsObjectId(id) == id >= 1

\* The skus held by the documents of d other than document self
\* (self = 0: all documents).
SkusOf(doc) == {doc.variants[i].sku : i \in DOMAIN doc.variants}

SkusOfOthers(d, self) == UNION {SkusOf(d[k]) : k \in DOMAIN d \ {self}}

\* The unique index on variants.sku refuses a write of document self that
\* would hold one of skus when another document holds it already.
DuplicateKey(d, self, skus) == skus \cap SkusOfOthers(d, self) # {}

----------------------------------------------------------------------------
\* Responses: the handler, the HTTP status, the errors array of the body, the
\* averageRating of the body in tenths (-1 when the body has none), the ids
\* of the products a listing returns in data, and the name of the error its
\* catch block caught.  raced and stale describe the
\* interleaving a successful save ran in: another append to the same array of
\* the same product was saved between its fetch and its save (raced), a stock
\* of the product was updated between its fetch and its save (stale).

Response(op, status, errors, thrown) ==
  [op |-> op, status |-> status, errors |-> errors, thrown |-> thrown,
   averageRating |-> -1, data |-> {}, raced |-> FALSE, stale |-> FALSE]

NoResponse == Response("none", 0, {}, "")

----------------------------------------------------------------------------
\* The store

\* new Product(req.body): the variants cast, no reviews, the status given
\* (the schema default Active when the body names none).
NewProduct(body) ==
  [variants |-> [i \in DOMAIN body.variants |-> CastVariant(body.variants[i])],
   reviews  |-> <<>>,
   status   |-> body.status]

\* The write sent before validation and the index had their say.
PersistedAlways(d, ok, written) == written

\* The write of a save() or an update reaches the collection only when
\* nothing was thrown before it.
Persisted(d, ok, written) == IF ok THEN written ELSE d

\* save() writing the whole in-memory document back over the stored one.
ReplaceOne(stored, copy, hooked, field, elem) == hooked

\* The updateOne putting the element in front of the stored array.
UpdateOneInFront(stored, copy, hooked, field, elem) ==
  LET pushed == IF field = "variants"
                  THEN [stored EXCEPT !.variants = <<elem>> \o @]
                  ELSE [stored EXCEPT !.reviews = <<elem>> \o @]
  IN  IF hooked.status # copy.status
        THEN [pushed EXCEPT !.status = hooked.status]
        ELSE pushed

\* The updateOne that save() sends for a fetched document: the pushed
\* element is appended to the STORED array ($push), and status is $set when
\* the hook changed it on the in-memory copy; nothing else is written.
UpdateOne(stored, copy, hooked, field, elem) ==
  LET pushed == IF field = "variants"
                  THEN [stored EXCEPT !.variants = Append(@, elem)]
                  ELSE [stored EXCEPT !.reviews = Append(@, elem)]
  IN  IF hooked.status # copy.status
        THEN [pushed EXCEPT !.status = hooked.status]
        ELSE pushed

\* product.<field>.push(body); await product.save() on the fetched copy:
\* validation of the pushed subdocument (the built-in validation runs before
\* the schema's own pre-save hook), the hook, then the updateOne, which the
\* unique index may refuse.  Gives what was thrown, the in-memory product
\* and the collection after.
SaveOutcome(d, id, copy, field, body) ==
  LET elem   == IF field = "variants" THEN CastVariant(body) ELSE body
      errors == IF field = "variants" THEN VariantErrors(elem) ELSE ReviewErrors(elem)
      pushed == IF field = "variants"
                  THEN [copy EXCEPT !.variants = Append(@, elem)]
                  ELSE [copy EXCEPT !.reviews = Append(@, elem)]
      hooked == PreSave(pushed)
      dup    == field = "variants" /\ DuplicateKey(d, id, {elem.sku})
      thrown == IF errors # {} THEN "ValidationError"
                ELSE IF dup THEN "MongoServerError"
                ELSE ""
  IN  [thrown  |-> thrown,
       errors  |-> errors,
       product |-> hooked,
       db      |-> Persisted(d, thrown = "",
                     [d EXCEPT ![id] = UpdateOne(d[id], copy, hooked, field, elem)])]

\* The product the filter {_id: id, variants.sku: s} of findOneAndUpdate
\* matches: 0 when there is none.
MatchedProduct(d, id, s) ==
  IF id \in DOMAIN d /\ FirstMatch(d[id].variants, s) # 0 THEN id ELSE 0

\* {$set: {variants.$[].stock: stock}}: the stock of every variant set.
SetStockOfAll(doc, s, stock) ==
  [doc EXCEPT !.variants = [i \in DOMAIN doc.variants |->
                              [doc.variants[i] EXCEPT !.stock = stock]]]

\* {$set: {variants.$.stock: stock}} on the product the filter matched.
SetStock(doc, s, stock) ==
  [doc EXCEPT !.variants[FirstMatch(doc.variants, s)].stock = stock]

----------------------------------------------------------------------------
\* History of acknowledged writes

HistCreate(h, doc) ==
  [h EXCEPT !.ackV = Append(@, Len(doc.variants)), !.ackR = Append(@, 0)]

HistAppend(h, id, field) ==
  IF field = "variants" THEN [h EXCEPT !.ackV[id] = @ + 1]
                        ELSE [h EXCEPT !.ackR[id] = @ + 1]

----------------------------------------------------------------------------
\* Inputs

StatusInputs == {"Active", "Inactive", "Discontinued"}
SkuInputs == {<<"a", "1">>, <<"A", "1">>, <<"b", "2">>}
\* Stock quantities of the requests, in halves: -1, 0 and 1.5.
StockInputs == {-2, 0, 3}
VariantInputs == [sku : SkuInputs, stock : StockInputs]
VariantLists == UNION {[1..n -> VariantInputs] : n \in 0..MaxVariants}
\* Request bodies of createProduct: every variant list under a valid name as
\* Active and as Inactive, and the lists of at most one variant as
\* Discontinued and under the short name.
ProductInputs ==
  [name : {"Tee"}, status : {"Active", "Inactive"}, variants : VariantLists]
    \cup [name : {"Tee"}, status : {"Discontinued"},
          variants : {v \in VariantLists : Len(v) <= 1}]
    \cup [name : {"ab"}, status : {"Active"},
          variants : {v \in VariantLists : Len(v) <= 1}]
ReviewInputs ==
  {[username |-> "ann", rating |-> 5], [username |-> "ann", rating |-> 6],
   [username |-> "", rating |-> 5]}
IdInputs == 0..MaxProducts

Idle == [op |-> "idle"]

----------------------------------------------------------------------------
\* Handlers

\* The server listening over the connected store.  The collection starts
\* empty: the sample products (inserted at start only into an empty
\* collection) are ordinary products and are not modelled.
Init ==
  /\ db = <<>>
  /\ req = [p \in Procs |-> Idle]
  /\ resp = NoResponse
  /\ hist = [ackV |-> <<>>, ackR |-> <<>>]

\* POST /api/products: new Product(body).save() validates, runs the hook
\* and inserts; the unique index may refuse the insert.
CreateProduct(body) ==
  /\ Len(db) < MaxProducts
  /\ LET product == NewProduct(body)
         errors == ProductErrors(body)
         savedProduct == PreSave(product)
         thrown == IF errors # {} THEN "ValidationError"
                   ELSE IF DuplicateKey(db, 0, SkusOf(product)) THEN "MongoServerError"
                   ELSE ""
     IN  /\ db' = Persisted(db, thrown = "", Append(db, savedProduct))
         /\ hist' = IF thrown = "" THEN HistCreate(hist, savedProduct) ELSE hist
         /\ resp' = IF thrown = "" THEN Response("createProduct", 201, {}, "")
                    ELSE IF thrown = "ValidationError"
                      THEN Response("createProduct", 400, errors, thrown)
                    ELSE Response("createProduct", 500, {}, thrown)
  /\ UNCHANGED req

\* GET /api/products/:id
GetProductById(id) ==
  /\ resp' = IF ~IsObjectId(id) THEN Response("getProductById", 400, {}, "CastError")
             ELSE IF id \notin DOMAIN db THEN Response("getProductById", 404, {}, "")
             ELSE Response("getProductById", 200, {}, "")
  /\ UNCHANGED <<db, req, hist>>

\* GET /api/products/:id/variant/:sku
GetVariantBySku(id, sku) ==
  /\ resp' = IF ~IsObjectId(id) THEN Response("getVariantBySku", 500, {}, "CastError")
             ELSE IF id \notin DOMAIN db THEN Response("getVariantBySku", 404, {}, "")
             ELSE IF getVariantBySku(db[id], sku) = 0
               THEN Response("getVariantBySku", 404, {}, "")
             ELSE Response("getVariantBySku", 200, {}, "")
  /\ UNCHANGED <<db, req, hist>>

\* PUT /api/products/:id/variants/:sku/stock: findOneAndUpdate casts the
\* filter, validates the stock (runValidators), then updates the first
\* variant the filter matches, in one step of the store and with no hook.
UpdateVariantStock(id, sku, stock) ==
  /\ LET s == ToUpperCase(sku)
         k == MatchedProduct(db, id, s)
         thrown == IF ~IsObjectId(id) THEN "CastError"
                   ELSE IF stock < 0 THEN "ValidationError"
                   ELSE ""
         ok == thrown = "" /\ k # 0
         written == IF k = 0 THEN db ELSE [db EXCEPT ![k] = SetStock(db[k], s, stock)]
     IN  /\ db' = Persisted(db, ok, written)
         /\ resp' = IF thrown # "" THEN Response("updateVariantStock", 500, {}, thrown)
                    ELSE IF k = 0 THEN Response("updateVariantStock", 404, {}, "")
                    ELSE Response("updateVariantStock", 200, {}, "")
  /\ UNCHANGED <<req, hist>>

\* The response of addVariant (op = addVariant) and of addReview to what
\* its try block threw: only addVariant answers a ValidationError with 400.
\* The success response of addReview carries product.averageRating, read
\* from the document in memory.
AppendResponse(op, out) ==
  IF out.thrown = ""
    THEN [Response(op, 200, {}, "") EXCEPT
            !.averageRating = IF op = "addReview" THEN averageRating(out.product)
                              ELSE -1]
  ELSE IF op = "addVariant" /\ out.thrown = "ValidationError"
    THEN Response(op, 400, out.errors, out.thrown)
  ELSE Response(op, 500, {}, out.thrown)

FieldOf(op) == IF op = "addVariant" THEN "variants" ELSE "reviews"

\* What the bounds count: the variants of product id, the reviews of the
\* catalog.
RECURSIVE CountReviews(_)
CountReviews(d) == IF d = <<>> THEN 0 ELSE Len(Head(d).reviews) + CountReviews(Tail(d))

Size(d, id, op) ==
  IF op = "addVariant" THEN Len(d[id].variants) ELSE CountReviews(d)

Cap(op) == IF op = "addVariant" THEN MaxVariants ELSE MaxReviews

\* A handler that appends, run with no other request in between:
\* POST /api/products/:id/variants and POST /api/products/:id/reviews.
AppendToProduct(op, id, body) ==
  /\ id \in DOMAIN db => Size(db, id, op) < Cap(op)
  /\ IF ~IsObjectId(id)
       THEN resp' = Response(op, 500, {}, "CastError") /\ UNCHANGED <<db, hist>>
     ELSE IF id \notin DOMAIN db
       THEN resp' = Response(op, 404, {}, "") /\ UNCHANGED <<db, hist>>
     ELSE LET out == SaveOutcome(db, id, db[id], FieldOf(op), body)
          IN  /\ db' = out.db
              /\ hist' = IF out.thrown = "" THEN HistAppend(hist, id, FieldOf(op)) ELSE hist
              /\ resp' = AppendResponse(op, out)
  /\ UNCHANGED req

AddVariant(id, body) == AppendToProduct("addVariant", id, body)

AddReview(id, body) == AppendToProduct("addReview", id, body)

Next ==
  \/ \E body \in ProductInputs : CreateProduct(body)
  \/ \E id \in IdInputs : GetProductById(id)
  \/ \E id \in IdInputs, sku \in SkuInputs : GetVariantBySku(id, sku)
  \/ \E id \in IdInputs, sku \in SkuInputs, stock \in StockInputs :
       UpdateVariantStock(id, sku, stock)
  \/ \E id \in IdInputs, body \in VariantInputs : AddVariant(id, body)
  \/ \E id \in IdInputs, body \in ReviewInputs : AddReview(id, body)

Spec == Init /\ [][Next]_vars

----------------------------------------------------------------------------
\* Interleaved requests: addVariant and addReview await the store twice,
\* at findById and at save, and other requests run in between.

ConcProductInputs ==
  [name : {"Tee"}, status : {"Active"},
   variants : [1..1 -> [sku : {<<"a", "1">>}, stock : {0, 3}]]]
ConcVariantInputs == [sku : {<<"A", "1">>}, stock : {0, 3}]
ConcReviewInputs ==
  {[username |-> "ann", rating |-> 4], [username |-> "ann", rating |-> 5],
   [username |-> "ann", rating |-> 6]}
ConcStockInputs == {0, 3}

\* The requests in flight that will append to what Size(d, id, op) counts.
InFlight(op, id) ==
  {q \in Procs : req[q].op = op /\ (op = "addVariant" => req[q].id = id)}

\* const product = await Product.findById(id), and the 404 that follows.
FindById(p, op, id) ==
  /\ req[p].op = "idle"
  /\ id \in DOMAIN db => Size(db, id, op) + Cardinality(InFlight(op, id)) < Cap(op)
  /\ IF ~IsObjectId(id)
       THEN resp' = Response(op, 500, {}, "CastError") /\ UNCHANGED req
     ELSE IF id \notin DOMAIN db
       THEN resp' = Response(op, 404, {}, "") /\ UNCHANGED req
     ELSE /\ req' = [req EXCEPT ![p] = [op |-> op, id |-> id, doc |-> db[id], raced |-> FALSE]]
          /\ UNCHANGED resp
  /\ UNCHANGED <<db, hist>>

\* A stock of the stored product differs from the fetched copy.
StaleStock(copy, stored) ==
  \E i \in DOMAIN copy.variants : copy.variants[i].stock # stored.variants[i].stock

\* product.<field>.push(req.body); await product.save(), and the response.
Save(p, body) ==
  /\ req[p].op # "idle"
  /\ LET op  == req[p].op
         id  == req[p].id
         out == SaveOutcome(db, id, req[p].doc, FieldOf(op), body)
         ok  == out.thrown = ""
     IN  /\ db' = out.db
         /\ hist' = IF ok THEN HistAppend(hist, id, FieldOf(op)) ELSE hist
         /\ resp' = IF ok
                      THEN [AppendResponse(op, out) EXCEPT
                              !.raced = req[p].raced,
                              !.stale = StaleStock(req[p].doc, db[id])]
                      ELSE AppendResponse(op, out)
         /\ req' = [q \in Procs |->
                      IF q = p THEN Idle
                      ELSE IF ok /\ req[q].op = op /\ req[q].id = id
                        THEN [req[q] EXCEPT !.raced = TRUE]
                      ELSE req[q]]

SaveVariant(p, body) == req[p].op = "addVariant" /\ Save(p, body)

SaveReview(p, body) == req[p].op = "addReview" /\ Save(p, body)

NextConc ==
  \/ \E body \in ConcProductInputs : CreateProduct(body)
  \/ \E p \in Procs, op \in {"addVariant", "addReview"}, id \in 1..MaxProducts :
       FindById(p, op, id)
  \/ \E p \in Procs, body \in ConcVariantInputs : SaveVariant(p, body)
  \/ \E p \in Procs, body \in ConcReviewInputs : SaveReview(p, body)
  \/ \E id \in 1..MaxProducts, stock \in ConcStockInputs :
       UpdateVariantStock(id, <<"a", "1">>, stock)

SpecConc == Init /\ [][NextConc]_vars

----------------------------------------------------------------------------
\* The pre-save hook on its own: a request holds a fetched document (db[1]
\* is the document as stored, req["r1"].doc the copy in memory) and save()
\* runs the hook on the copy.  The documents are those that pass validation.

StatusEnum == {"Active", "Inactive", "Discontinued", "Out of Stock"}

HookVariants == [sku : {<<"A", "1">>, <<"B", "2">>}, stock : {0, 1, 3}]

HookDocs ==
  [variants : UNION {[1..n -> HookVariants] : n \in 1..MaxVariants},
   reviews  : {<<>>, <<[username |-> "ann", rating |-> 5]>>},
   status   : StatusEnum]

InitHook ==
  /\ db \in {<<doc>> : doc \in HookDocs}
  /\ req = [p \in Procs |->
              IF p = "r1" THEN [op |-> "save", id |-> 1, doc |-> db[1], raced |-> FALSE]
              ELSE Idle]
  /\ resp = NoResponse
  /\ hist = [ackV |-> <<>>, ackR |-> <<>>]

\* productSchema.pre('save', ...) run on the document in memory.
RunPreSave ==
  /\ req["r1"].op = "save"
  /\ req' = [req EXCEPT !["r1"].doc = PreSave(@)]
  /\ resp' = Response("preSave", 0, {}, "")
  /\ UNCHANGED <<db, hist>>

NextHook == RunPreSave

SpecHook == InitHook /\ [][NextHook]_vars

----------------------------------------------------------------------------
\* The listings: GET /api/products with its query parameters category,
\* status and inStock, and GET /api/products/category/:category, over a
\* catalog whose products carry a category.  A parameter that is absent or
\* empty is "", and so is a key the query object does not have.  The other
\* parameters of the listing (brand, featured, price range, search, color,
\* size) each add one more key to the same query object and are left out.

Categories == {"Electronics", "Clothing"}

ListVariants == [sku : {<<"A", "1">>, <<"B", "2">>}, stock : {0, 3}]

ListDocs ==
  [category : Categories,
   status   : StatusEnum,
   variants : UNION {[1..n -> ListVariants] : n \in 1..MaxVariants},
   reviews  : {<<>>}]

\* The catalogs of at most two products that no sku is shared between.
Catalogs ==
  {<<>>} \cup {<<doc>> : doc \in ListDocs}
    \cup {<<d1, d2>> : d1 \in {d \in ListDocs : SkusOf(d) = {<<"A", "1">>}},
                       d2 \in {d \in ListDocs : SkusOf(d) = {<<"B", "2">>}}}

QueryInputs ==
  [category : {"", "Electronics", "Clothing"},
   status   : {"", "Active", "Inactive"},
   inStock  : {"", "true", "false"}]

InitList ==
  /\ db \in Catalogs
  /\ req = [p \in Procs |-> Idle]
  /\ resp = NoResponse
  /\ hist = [ackV |-> <<>>, ackR |-> <<>>]

\* The query object that defaults to the Active products.
QueryOfActive(q) ==
  [category |-> q.category,
   status   |-> IF q.status # "" THEN q.status ELSE "Active",
   stockGt0 |-> q.inStock = "true"]

\* The query object getAllProducts builds from req.query: a key for each
\* parameter that is truthy, variants.stock: {$gt: 0} for inStock 'true'.
QueryOf(q) ==
  [category |-> IF q.category # "" THEN q.category ELSE "",
   status   |-> IF q.status # "" THEN q.status ELSE "",
   stockGt0 |-> q.inStock = "true"]

\* A document matches a query object when it matches every key of it; a
\* condition on variants.stock is matched by any element of the array.
Matches(doc, query) ==
  /\ query.category # "" => doc.category = query.category
  /\ query.status # "" => doc.status = query.status
  /\ query.stockGt0 => \E i \in DOMAIN doc.variants : doc.variants[i].stock > 0

\* Product.find(query)
Find(d, query) == {id \in DOMAIN d : Matches(d[id], query)}

\* statics.findByCategory
findByCategory(d, category) ==
  Find(d, [category |-> category, status |-> "Active", stockGt0 |-> FALSE])

\* GET /api/products
GetAllProducts(q) ==
  /\ resp' = [Response("getAllProducts", 200, {}, "") EXCEPT
                !.data = Find(db, QueryOf(q))]
  /\ UNCHANGED <<db, req, hist>>

\* GET /api/products/category/:category
GetProductsByCategory(category) ==
  /\ resp' = [Response("getProductsByCategory", 200, {}, "") EXCEPT
                !.data = findByCategory(db, category)]
  /\ UNCHANGED <<db, req, hist>>

NextList ==
  \/ \E q \in QueryInputs : GetAllProducts(q)
  \/ \E category \in Categories : GetProductsByCategory(category)

SpecList == InitList /\ [][NextList]_vars

----------------------------------------------------------------------------
\* Properties

\* C1: no persisted product has status Active while the sum of its variants'
\* stock is 0, on every write path, the stock update included.
NoActiveProductWithoutStock ==
  \A id \in DOMAIN db : ~(db[id].status = "Active" /\ totalStock(db[id]) = 0)

\* C2: no two variants of the catalog, in different products or in the same
\* product, have the same stored sku compared after upper-casing.
SkuUnique ==
  \A id1 \in DOMAIN db, id2 \in DOMAIN db :
    \A i \in DOMAIN db[id1].variants, j \in DOMAIN db[id2].variants :
      (id1 # id2 \/ i # j) =>
        ToUpperCase(db[id1].variants[i].sku) # ToUpperCase(db[id2].variants[j].sku)

\* C3: a stock set by updateVariantStock is never overwritten by another
\* writer: the stock of a stored variant changes only in a step of an
\* updateVariantStock applied to that variant, and then to the value that
\* call sets; no save of a fetched copy, however stale, changes or removes it.
\* So each stock equals the value of the last update applied to it.
StockChangedOnlyByUpdate ==
  [][\A id \in DOMAIN db : \A i \in DOMAIN db[id].variants :
       \/ /\ id \in DOMAIN db'
          /\ i \in DOMAIN db'[id].variants
          /\ db'[id].variants[i].stock = db[id].variants[i].stock
       \/ \E sku \in SkuInputs, stock \in StockInputs :
            /\ UpdateVariantStock(id, sku, stock)
            /\ FirstMatch(db[id].variants, ToUpperCase(sku)) = i
            /\ db'[id].variants[i].stock = stock]_vars

\* C3 witness: an append was saved from a copy fetched before a stock update
\* of its product.
StaleCopySaved == resp.status = 200 /\ resp.stale

NoSuchVariant(d, id, sku) ==
  ~(id \in DOMAIN d /\ \E i \in DOMAIN d[id].variants :
                         d[id].variants[i].sku = ToUpperCase(sku))

\* C5: updateVariantStock with a well-formed product id and a sku such that
\* no product with that id holds a variant with that sku answers 404 and
\* leaves every product unchanged, whatever stock the request carries.
NoMatchAnswers404 ==
  [][\A id \in IdInputs, sku \in SkuInputs, stock \in StockInputs :
       (/\ UpdateVariantStock(id, sku, stock)
        /\ IsObjectId(id)
        /\ NoSuchVariant(db, id, sku))
         => (db' = db /\ resp'.status = 404)]_vars

\* C6: a write that fails performs no partial write: a step that ends in a
\* failure response leaves the catalog as it was.
FailedWriteChangesNothing == [][resp'.status >= 400 => db' = db]_vars

\* C6 witness: an append to a stored product was refused for its input.
AppendRefused ==
  resp.op = "addVariant" /\ resp.status = 400 /\ resp.errors # {} /\ db # <<>>

\* C7: every constraint violation is answered 400, never 500.
ValidationAnswers400 == resp.thrown = "ValidationError" => resp.status = 400

\* C8: an id that is not a well-formed identity token is answered 400 by
\* every operation that takes a product id.
MalformedIdAnswers400 == resp.thrown = "CastError" => resp.status = 400

\* The createProduct bodies whose variants sequence is empty.
EmptyVariantsInputs ==
  [name : {"Tee"}, status : StatusInputs, variants : {<<>>}]
    \cup [name : {"ab"}, status : {"Active"}, variants : {<<>>}]

\* C9: every persisted product has at least one variant, and createProduct
\* with an empty (or absent, which casts to empty) variants sequence fails
\* validation with the message that one is required and stores nothing.
AtLeastOneVariant ==
  [][/\ \A id \in DOMAIN db' : Len(db'[id].variants) >= 1
     /\ \A body \in EmptyVariantsInputs :
          (resp'.op = "createProduct" /\ CreateProduct(body))
            => /\ db' = db
               /\ resp'.status = 400
               /\ "Product must have at least one variant" \in resp'.errors]_vars

\* C9 witness: a product without variants was refused while the catalog
\* holds a product.
EmptyVariantsRefused ==
  /\ resp.op = "createProduct"
  /\ "Product must have at least one variant" \in resp.errors
  /\ db # <<>>

\* C10: every persisted stock is an integer greater than or equal to 0
\* (quantities are in halves: the even ones are the integers).
StockIsNaturalNumber ==
  \A id \in DOMAIN db : \A i \in DOMAIN db[id].variants :
    db[id].variants[i].stock >= 0 /\ db[id].variants[i].stock % 2 = 0

\* The handlers that save a document.
SaveOps == {"createProduct", "addVariant", "addReview"}

\* C11 as stated: a product whose variants' stock sums to 0 when it is saved
\* by createProduct, addVariant or addReview is persisted with status
\* Out of Stock whatever its status was before, Inactive and Discontinued
\* included.
ZeroStockSavedOutOfStock ==
  [][(resp'.op \in SaveOps /\ resp'.status \in {200, 201})
       => \A id \in DOMAIN db' :
            ((id \notin DOMAIN db \/ db'[id] # db[id])
               /\ SumStock(db'[id].variants) = 0)
              => db'[id].status = "Out of Stock"]_vars

\* C11 amended: a product whose variants' stock sums to 0 when it is saved
\* is persisted with status Out of Stock when its status before the save was
\* Active; with any other status before the save (Inactive, Discontinued)
\* and with a positive sum the status is persisted as it was.  (A product
\* is created by the request that carries its variants, in whatever case it
\* spells the skus, and some status.)
ZeroStockCoercesActiveOnly ==
  [][/\ (resp'.op = "createProduct" /\ resp'.status = 201)
          => \A st \in StatusInputs :
               CreateProduct([name |-> "Tee", status |-> st,
                              variants |-> db'[Len(db')].variants])
                 => db'[Len(db')].status =
                      IF SumStock(db'[Len(db')].variants) = 0 /\ st = "Active"
                        THEN "Out of Stock" ELSE st
     /\ (resp'.op \in {"addVariant", "addReview"} /\ resp'.status = 200)
          => \A id \in DOMAIN db :
               db'[id] # db[id]
                 => db'[id].status =
                      IF SumStock(db'[id].variants) = 0 /\ db[id].status = "Active"
                        THEN "Out of Stock" ELSE db[id].status]_vars

\* C11 witness: a save has persisted a product without stock whose status
\* is neither Active nor Out of Stock.
ZeroStockSavedInactive ==
  /\ resp.op \in SaveOps
  /\ resp.status \in {200, 201}
  /\ \E id \in DOMAIN db :
       db[id].status \in {"Inactive", "Discontinued"} /\ totalStock(db[id]) = 0

\* C12: the pre-save hook is idempotent and otherwise free of side effects:
\* with once the document after one run of the hook on the document doc,
\* a second run gives once again, once differs from doc in no field other
\* than status, and once is doc itself when the total stock of doc is
\* positive or its status is not Active.
PreSaveIdempotent ==
  resp.op = "preSave" =>
    LET doc  == db[1]
        once == req["r1"].doc
    IN  /\ PreSave(once) = once
        /\ once.variants = doc.variants
        /\ once.reviews = doc.reviews
        /\ (totalStock(doc) > 0 \/ doc.status # "Active") => once = doc

\* C12 witness: the hook has run on an Active document without stock and
\* made it Out of Stock.
PreSaveCoerced ==
  /\ resp.op = "preSave"
  /\ db[1].status = "Active"
  /\ totalStock(db[1]) = 0
  /\ req["r1"].doc.status = "Out of Stock"

\* Two characters are the same letter in either case, or the same character.
SameLetter(c, d) ==
  \/ c = d
  \/ {c, d} = {"a", "A"}
  \/ {c, d} = {"b", "B"}

\* The spellings of the sku s in upper and lower case.
CaseVariations(s) ==
  {t \in [DOMAIN s -> {"a", "A", "b", "B", "1", "2"}] :
     \A i \in DOMAIN s : SameLetter(t[i], s[i])}

\* C13: lookup of a variant by sku is case-insensitive: for every product
\* and every variant persisted in it, getVariantBySku and the filter of
\* updateVariantStock, given any upper/lower-case spelling of the sku of that
\* variant, resolve to that variant (the variant they find has its content),
\* and a sku no variant of the product has in any spelling resolves to not
\* found.
SkuLookupCaseInsensitive ==
  \A id \in DOMAIN db :
    /\ \A i \in DOMAIN db[id].variants :
         \A sku \in CaseVariations(db[id].variants[i].sku) :
           LET found   == getVariantBySku(db[id], sku)
               updated == FirstMatch(db[id].variants, ToUpperCase(sku))
           IN  /\ found # 0
               /\ db[id].variants[found] = db[id].variants[i]
               /\ MatchedProduct(db, id, ToUpperCase(sku)) = id
               /\ db[id].variants[updated] = db[id].variants[i]
    /\ \A sku \in SkuInputs :
         (\A i \in DOMAIN db[id].variants :
            sku \notin CaseVariations(db[id].variants[i].sku))
           => /\ getVariantBySku(db[id], sku) = 0
              /\ MatchedProduct(db, id, ToUpperCase(sku)) = 0

\* The mean of the ratings rs rounded to one decimal, in tenths: the number
\* of tenths nearest to the sum divided by the count.
RoundedMean(rs) ==
  CHOOSE n \in 0..60 :
    \A m \in 0..60 :
      (IF 10 * SumRating(rs) >= n * Len(rs)
         THEN 10 * SumRating(rs) - n * Len(rs) ELSE n * Len(rs) - 10 * SumRating(rs))
        <= (IF 10 * SumRating(rs) >= m * Len(rs)
              THEN 10 * SumRating(rs) - m * Len(rs) ELSE m * Len(rs) - 10 * SumRating(rs))

\* C14: a successful addReview returns in its response an averageRating
\* equal to the mean, rounded to one decimal, of the ratings of all reviews
\* of the product, the appended one included; the averageRating of a product
\* without reviews is 0.
ResponseAveragesAllReviews ==
  [][/\ \A p \in Procs :
          (req[p].op = "addReview" /\ req'[p].op = "idle" /\ resp'.status = 200)
            => resp'.averageRating = RoundedMean(db'[req[p].id].reviews)
     /\ \A id \in DOMAIN db' :
          db'[id].reviews = <<>> => averageRating(db'[id]) = 0]_vars

\* C15: the listing returns exactly the products that satisfy every filter
\* the request supplies: the category when one is given, the status when one
\* is given and only then, and for inStock=true having at least one variant
\* with stock above 0 (the claim gives inStock=false no meaning, and the
\* formula leaves those requests aside); the category endpoint returns
\* exactly the products of the category whose status is Active.
ListingAppliesSuppliedFilters ==
  [][/\ resp'.op = "getAllProducts"
          => \A q \in QueryInputs :
               (q.inStock # "false" /\ GetAllProducts(q))
                 => resp'.data =
                      {id \in DOMAIN db :
                         /\ q.category # "" => db[id].category = q.category
                         /\ q.status # "" => db[id].status = q.status
                         /\ q.inStock = "true"
                              => \E i \in DOMAIN db[id].variants :
                                   db[id].variants[i].stock > 0}
     /\ resp'.op = "getProductsByCategory"
          => \A category \in Categories :
               GetProductsByCategory(category)
                 => resp'.data =
                      {id \in DOMAIN db :
                         db[id].category = category /\ db[id].status = "Active"}]_vars

\* C15 witness: a listing has returned a product that is not Active and has
\* left another product out.
ListingReturnedInactive ==
  /\ resp.op = "getAllProducts"
  /\ \E id \in resp.data : db[id].status # "Active"
  /\ resp.data # DOMAIN db

\* C16: appends keep the order of insertion and what is there: a successful
\* addVariant (addReview) with no other writer in between leaves the
\* variants (reviews) of the product equal to the sequence before with the
\* new element, as the schema casts it, at the end, and leaves its reviews
\* (variants) and every other product as they were.
AppendKeepsOrderAndContent ==
  [][/\ (resp'.op = "addVariant" /\ resp'.status = 200)
          => \A id \in IdInputs, body \in VariantInputs :
               AddVariant(id, body)
                 => /\ db'[id].variants =
                         Append(db[id].variants, [body EXCEPT !.sku = ToUpperCase(@)])
                    /\ db'[id].reviews = db[id].reviews
                    /\ Len(db') = Len(db)
                    /\ \A k \in DOMAIN db \ {id} : db'[k] = db[k]
     /\ (resp'.op = "addReview" /\ resp'.status = 200)
          => \A id \in IdInputs, body \in ReviewInputs :
               AddReview(id, body)
                 => /\ db'[id].reviews = Append(db[id].reviews, body)
                    /\ db'[id].variants = db[id].variants
                    /\ Len(db') = Len(db)
                    /\ \A k \in DOMAIN db \ {id} : db'[k] = db[k]]_vars

\* C16 witness: a variant was appended behind a different one in a catalog
\* of two products.
VariantAppendedBehind ==
  /\ resp.op = "addVariant"
  /\ resp.status = 200
  /\ Len(db) = 2
  /\ \E id \in DOMAIN db :
       Len(db[id].variants) = 2 /\ db[id].variants[1] # db[id].variants[2]

\* C17: a successful updateVariantStock changes only the stock of the one
\* variant matched by the product id and the upper-cased sku (the first of
\* the product with that sku): the sku of that variant, the other variants,
\* the status and the reviews of the product and every other product stay as
\* they were; it is one step of the store, and no request holds a document
\* read for it.
StockUpdateChangesOneStock ==
  [][(resp'.op = "updateVariantStock" /\ resp'.status = 200)
       => \A id \in IdInputs, sku \in SkuInputs, stock \in StockInputs :
            UpdateVariantStock(id, sku, stock)
              => LET i == CHOOSE i \in DOMAIN db[id].variants :
                            /\ db[id].variants[i].sku = ToUpperCase(sku)
                            /\ \A j \in 1..(i - 1) :
                                 db[id].variants[j].sku # ToUpperCase(sku)
                 IN  /\ db'[id].variants[i] = [sku |-> ToUpperCase(sku), stock |-> stock]
                     /\ Len(db'[id].variants) = Len(db[id].variants)
                     /\ \A j \in DOMAIN db[id].variants \ {i} :
                          db'[id].variants[j] = db[id].variants[j]
                     /\ db'[id].status = db[id].status
                     /\ db'[id].reviews = db[id].reviews
                     /\ Len(db') = Len(db)
                     /\ \A k \in DOMAIN db \ {id} : db'[k] = db[k]
                     /\ req' = req]_vars

\* C17 witness: a stock update succeeded on a product of two variants with
\* different stocks that has a review, in a catalog of two products.
StockUpdatedAmongOthers ==
  /\ resp.op = "updateVariantStock"
  /\ resp.status = 200
  /\ Len(db) = 2
  /\ \E id \in DOMAIN db :
       /\ Len(db[id].variants) = 2
       /\ db[id].variants[1].stock # db[id].variants[2].stock
       /\ db[id].reviews # <<>>

\* C18: no operation changes the status of a persisted product from a value
\* other than Active to Active: a product that is not Active (one coerced to
\* Out of Stock, say) is still persisted, not Active and not available after
\* every step, also after updateVariantStock or addVariant has raised its
\* total stock above 0.
StatusNeverBackToActive ==
  [][\A id \in DOMAIN db :
       db[id].status # "Active"
         => /\ id \in DOMAIN db'
            /\ db'[id].status # "Active"
            /\ ~isAvailable(db'[id])]_vars

\* C18 witness: a stock update or an added variant has left a product that
\* is Out of Stock with a total stock above 0.
OutOfStockWithStock ==
  /\ resp.op \in {"updateVariantStock", "addVariant"}
  /\ resp.status = 200
  /\ \E id \in DOMAIN db :
       db[id].status = "Out of Stock" /\ totalStock(db[id]) > 0

====
